---- MODULE Spec2Model ----
(***************************************************************************)
(* Model of the multi-video player page (src/src/app/page.tsx).            *)
(*                                                                         *)
(* The component is single-threaded: every event handler runs to           *)
(* completion, React then re-renders, commits (ref callbacks) and flushes  *)
(* the passive effects before the next discrete event is handled.  Each    *)
(* action below is therefore one handler together with the render, commit  *)
(* and effects it triggers.                                                *)
(*                                                                         *)
(* Volumes are in percent (0.5 is 50).  Ids and object URLs are fresh      *)
(* natural numbers (crypto.randomUUID, URL.createObjectURL).               *)
(*                                                                         *)
(* Spec runs every handler of the component, SpecRegistry the handlers     *)
(* that change the registry on a larger registry, and SpecNative adds the  *)
(* user's adjustments of single elements through their native controls.    *)
(***************************************************************************)
EXTENDS Integers, Sequences, FiniteSets, TLC

VARIABLES
    videos,        \* useState: sequence of [id, url]
    globalVolume,  \* useState(0.5)
    isMuted,       \* useState(false)
    isPlaying,     \* useState(true)
    videoRefs,     \* useRef(new Map()): id -> element
    elements,      \* the mounted <video> elements, keyed by React key
    objectURLs,    \* the browser's blob URL store: url -> [blob, revoked]
    nextId,        \* number of ids handed out so far, plus one
    mounted,       \* the component is mounted
    lastOp         \* history: the handler that ran last and what it issued

vars == <<videos, globalVolume, isMuted, isPlaying, videoRefs, elements,
          objectURLs, nextId, mounted, lastOp>>

----------------------------------------------------------------------------
(* Bounds *)

MaxIds == 2          \* entries created over the whole session, in Spec
MaxRegistryIds == 3  \* the same, in SpecRegistry
MaxNativeIds == 1    \* the same, in SpecNative
MaxPayload == 2      \* files in one drop payload
MaxRevoke == 2       \* revocation counts saturate here ("this many or more")

(* Program constants *)

InitVolume == 50     \* useState(0.5)
DefaultVolume == 100 \* volume of a freshly created <video> element

(* Inputs *)

Files == {"a.mp4", "b.webm", "n.txt"}

VolumeChoices == {30, 50}

\* file.type, as a sequence of characters
FileType(f) ==
    CASE f = "a.mp4"  -> <<"v","i","d","e","o","/","m","p","4">>
      [] f = "b.webm" -> <<"v","i","d","e","o","/","w","e","b","m">>
      [] OTHER        -> <<"t","e","x","t","/","p","l","a","i","n">>

VideoPrefix == <<"v","i","d","e","o","/">>

Payloads == UNION {[1..n -> Files] : n \in 0..MaxPayload}

----------------------------------------------------------------------------
(* Helpers *)

Min(a, b) == IF a < b THEN a ELSE b

Ids(vs) == {vs[i].id : i \in 1..Len(vs)}

Urls(vs) == {vs[i].url : i \in 1..Len(vs)}

StartsWith(s, prefix) ==
    /\ Len(s) >= Len(prefix)
    /\ SubSeq(s, 1, Len(prefix)) = prefix

\* Map.set / Map.delete / Map.clear on videoRefs.current
MapSet(m, k, v) == [x \in DOMAIN m \cup {k} |-> IF x = k THEN v ELSE m[x]]

MapDelete(m, k) == [x \in DOMAIN m \ {k} |-> m[x]]

EmptyMap == [x \in {} |-> 0]

MapClear(m) == EmptyMap

\* the store entry of a url no longer maps to a blob
NoBlob == "none"

\* URL.revokeObjectURL(url): the url stops resolving to its blob; the store
\* counts how often the url was revoked
RevokeObjectURL(store, url) ==
    IF url \in DOMAIN store
    THEN [store EXCEPT ![url] = [blob |-> NoBlob, revoked |-> Min(@.revoked + 1, MaxRevoke)]]
    ELSE store

RECURSIVE RevokeAll(_, _)
\* vs.forEach(video => URL.revokeObjectURL(video.url))
RevokeAll(store, vs) ==
    IF vs = << >> THEN store
    ELSE RevokeAll(RevokeObjectURL(store, Head(vs).url), Tail(vs))

----------------------------------------------------------------------------
(* handleDrop, lines 40-58 *)

\* the filter left out: every dropped file becomes an entry
VideoFilesUnfiltered(files) == files

\* files.filter(file => file.type.startsWith('video/'))
VideoFiles(files) == SelectSeq(files, LAMBDA f : StartsWith(FileType(f), VideoPrefix))

\* one id generated before the map and given to every entry of the drop
NewVideosSameId(videoFiles, firstId, firstUrl) ==
    [k \in 1..Len(videoFiles) |-> [id |-> firstId, url |-> firstUrl + k - 1]]

\* videoFiles.map(file => ({ id: crypto.randomUUID(), url: URL.createObjectURL(file) }))
NewVideos(videoFiles, firstId, firstUrl) ==
    [k \in 1..Len(videoFiles) |-> [id |-> firstId + k - 1, url |-> firstUrl + k - 1]]

\* URL.createObjectURL(file) for each new entry: the store remembers the file
CreateObjectURLs(store, videoFiles, firstUrl) ==
    [u \in DOMAIN store \cup (firstUrl..(firstUrl + Len(videoFiles) - 1)) |->
        IF u \in DOMAIN store THEN store[u]
        ELSE [blob |-> videoFiles[u - firstUrl + 1], revoked |-> 0]]

\* setVideos(prev => [...prev, ...newVideos])
AppendVideos(prev, newVideos) == prev \o newVideos

----------------------------------------------------------------------------
(* removeVideo, lines 87-96 *)

\* prev.find(v => v.id === id), then URL.revokeObjectURL(video.url)
RevokeFound(store, prev, id) ==
    IF \E i \in 1..Len(prev) : prev[i].id = id
    THEN LET i == CHOOSE j \in 1..Len(prev) :
                    /\ prev[j].id = id
                    /\ \A k \in 1..(j - 1) : prev[k].id # id
         IN RevokeObjectURL(store, prev[i].url)
    ELSE store

\* the filter removing by position of the first match onwards
FilterOutFromMatch(prev, id) ==
    IF \E i \in 1..Len(prev) : prev[i].id = id
    THEN SubSeq(prev, 1, (CHOOSE i \in 1..Len(prev) : prev[i].id = id) - 1)
    ELSE prev

\* prev.filter(v => v.id !== id)
FilterOut(prev, id) == SelectSeq(prev, LAMBDA v : v.id # id)

----------------------------------------------------------------------------
(* clearAllVideos, lines 99-103 *)

\* useCallback(..., []) keeps the closure of the first render, in which
\* videos is the initial useState value
ClearClosureVideos == << >>

----------------------------------------------------------------------------
(* setVideoRef, lines 76-84.  dom is [refs, els]; element is an id of      *)
(* elements, or NoElement for null.                                         *)

NoElement == 0

\* the element registered without applying the control state
SetVideoRefNoInit(dom, element, id, vol, muted) ==
    IF element # NoElement
    THEN [dom EXCEPT !.refs = MapSet(dom.refs, id, element)]
    ELSE [dom EXCEPT !.refs = MapDelete(dom.refs, id)]

\* the control state applied to the element, which is then not registered
SetVideoRefNoSet(dom, element, id, vol, muted) ==
    IF element # NoElement
    THEN [dom EXCEPT !.els = [@ EXCEPT ![element] =
                                 [@ EXCEPT !.volume = vol, !.muted = muted]]]
    ELSE [dom EXCEPT !.refs = MapDelete(dom.refs, id)]

SetVideoRef(dom, element, id, vol, muted) ==
    IF element # NoElement
    THEN [refs |-> MapSet(dom.refs, id, element),
          els  |-> [dom.els EXCEPT ![element] =
                        [@ EXCEPT !.volume = vol, !.muted = muted]]]
    ELSE [dom EXCEPT !.refs = MapDelete(dom.refs, id)]

----------------------------------------------------------------------------
(* Volume / mute fan-out effect, lines 61-66 *)

FanOut(dom, vol, muted) ==
    [dom EXCEPT !.els = [e \in DOMAIN dom.els |->
        IF \E id \in DOMAIN dom.refs : dom.refs[id] = e
        THEN [dom.els[e] EXCEPT !.volume = vol, !.muted = muted]
        ELSE dom.els[e]]]

----------------------------------------------------------------------------
(* Render and commit of the grid, lines 217-236.  The ref prop is an       *)
(* inline arrow, a new function in every render, so on every commit React  *)
(* calls the previous render's callback with null and the new one with the *)
(* element, for every <video> that stays mounted.                           *)

\* a freshly created <video>: default volume, not muted, not yet playing
NewElement == [volume |-> DefaultVolume, muted |-> FALSE, paused |-> TRUE]

\* reconcile by key={video.id}: keep the elements whose key remains,
\* create elements for new keys, drop the others
Reconcile(els, newVideos) ==
    [e \in Ids(newVideos) |-> IF e \in DOMAIN els THEN els[e] ELSE NewElement]

RECURSIVE DetachRefs(_, _, _, _)
\* previous callbacks called with null, in render order
DetachRefs(dom, oldVideos, vol, muted) ==
    IF oldVideos = << >> THEN dom
    ELSE DetachRefs(SetVideoRef(dom, NoElement, Head(oldVideos).id, vol, muted),
                    Tail(oldVideos), vol, muted)

RECURSIVE AttachRefs(_, _, _, _)
\* new callbacks called with the element, in render order
AttachRefs(dom, newVideos, vol, muted) ==
    IF newVideos = << >> THEN dom
    ELSE AttachRefs(SetVideoRef(dom, Head(newVideos).id, Head(newVideos).id, vol, muted),
                    Tail(newVideos), vol, muted)

\* autoPlay on the elements created by this commit; the browser may block it
AutoPlay(dom, created, blocked) ==
    [dom EXCEPT !.els = [e \in DOMAIN dom.els |->
        IF e \in created \ blocked
        THEN [dom.els[e] EXCEPT !.paused = FALSE]
        ELSE dom.els[e]]]

\* old* are the values of the previous render, new* those of this render
Commit(dom, oldVideos, oldVol, oldMuted, newVideos, newVol, newMuted, blocked) ==
    LET detached == DetachRefs(dom, oldVideos, oldVol, oldMuted)
        created  == Ids(newVideos) \ DOMAIN dom.els
        rendered == [detached EXCEPT !.els = Reconcile(dom.els, newVideos)]
        attached == AttachRefs(rendered, newVideos, newVol, newMuted)
    IN AutoPlay(attached, created, blocked)

\* passive effects after the commit: the fan-out runs when globalVolume or
\* isMuted changed (deps of line 66)
Effects(dom, oldVol, oldMuted, newVol, newMuted) ==
    IF oldVol # newVol \/ oldMuted # newMuted
    THEN FanOut(dom, newVol, newMuted)
    ELSE dom

\* cleanup of the [videos] effect, lines 69-73: it runs whenever setVideos
\* stored a new array, and revokes the url of every entry of the old array
VideosCleanup(store, oldVideos) == RevokeAll(store, oldVideos)

Rerender(dom, oldVideos, oldVol, oldMuted, newVideos, newVol, newMuted, blocked) ==
    Effects(Commit(dom, oldVideos, oldVol, oldMuted, newVideos, newVol, newMuted, blocked),
            oldVol, oldMuted, newVol, newMuted)

Dom == [refs |-> videoRefs, els |-> elements]

\* history of the last handler: its name, the payload it was given, the
\* play/pause commands it issued per id of the table, and the ids whose play
\* failure it logged
NoOp == [op |-> "init", files |-> << >>, cmds |-> EmptyMap, logged |-> {}]

----------------------------------------------------------------------------
Init ==
    /\ videos = << >>
    /\ globalVolume = InitVolume
    /\ isMuted = FALSE
    /\ isPlaying = TRUE
    /\ videoRefs = EmptyMap
    /\ elements = EmptyMap
    /\ objectURLs = EmptyMap
    /\ nextId = 1
    /\ mounted = TRUE
    /\ lastOp = NoOp

\* the next url createObjectURL hands out
NextUrl == Cardinality(DOMAIN objectURLs) + 1

HandleDrop(files, blocked) ==
    LET videoFiles == VideoFiles(files)
        newVideos  == NewVideos(videoFiles, nextId, NextUrl)
        created    == CreateObjectURLs(objectURLs, videoFiles, NextUrl)
        next       == AppendVideos(videos, newVideos)
        dom        == Rerender(Dom, videos, globalVolume, isMuted,
                               next, globalVolume, isMuted, blocked)
    IN /\ mounted
       /\ blocked \subseteq Ids(newVideos)
       /\ videos' = next
       /\ nextId' = nextId + Len(videoFiles)
       /\ objectURLs' = VideosCleanup(created, videos)
       /\ videoRefs' = dom.refs
       /\ elements' = dom.els
       /\ lastOp' = [NoOp EXCEPT !.op = "drop", !.files = files]
       /\ UNCHANGED <<globalVolume, isMuted, isPlaying, mounted>>

RemoveVideo(id) ==
    LET revoked == RevokeFound(objectURLs, videos, id)
        next    == FilterOut(videos, id)
        deleted == [Dom EXCEPT !.refs = MapDelete(videoRefs, id)]
        dom     == Rerender(deleted, videos, globalVolume, isMuted,
                            next, globalVolume, isMuted, {})
    IN /\ mounted
       /\ videos' = next
       /\ objectURLs' = VideosCleanup(revoked, videos)
       /\ videoRefs' = dom.refs
       /\ elements' = dom.els
       /\ lastOp' = [NoOp EXCEPT !.op = "remove"]
       /\ UNCHANGED <<globalVolume, isMuted, isPlaying, nextId, mounted>>

ClearAllVideos ==
    LET revoked == RevokeAll(objectURLs, ClearClosureVideos)
        next    == << >>
        cleared == [Dom EXCEPT !.refs = MapClear(videoRefs)]
        dom     == Rerender(cleared, videos, globalVolume, isMuted,
                            next, globalVolume, isMuted, {})
    IN /\ mounted
       /\ Len(videos) # 0            \* disabled={videos.length === 0}
       /\ videos' = next
       /\ objectURLs' = VideosCleanup(revoked, videos)
       /\ videoRefs' = dom.refs
       /\ elements' = dom.els
       /\ lastOp' = [NoOp EXCEPT !.op = "clear"]
       /\ UNCHANGED <<globalVolume, isMuted, isPlaying, nextId, mounted>>

\* the volume kept outside React state: stored, but no render and no effect
SetGlobalVolumeUnrendered(v) ==
    /\ mounted
    /\ v # globalVolume
    /\ globalVolume' = v
    /\ lastOp' = [NoOp EXCEPT !.op = "volume"]
    /\ UNCHANGED <<videos, isMuted, isPlaying, videoRefs, elements,
                   objectURLs, nextId, mounted>>

\* onChange of the range input, line 180.  The input is controlled by
\* globalVolume, so a change event carries a value other than globalVolume.
SetGlobalVolume(v) ==
    LET dom == Rerender(Dom, videos, globalVolume, isMuted, videos, v, isMuted, {})
    IN /\ mounted
       /\ v # globalVolume
       /\ globalVolume' = v
       /\ videoRefs' = dom.refs
       /\ elements' = dom.els
       /\ lastOp' = [NoOp EXCEPT !.op = "volume"]
       /\ UNCHANGED <<videos, isMuted, isPlaying, objectURLs, nextId, mounted>>

\* the flag stored and written to the bound elements by the handler itself,
\* with no render: only the muted property is written
ToggleMuteDirect ==
    /\ mounted
    /\ Len(videos) # 0
    /\ isMuted' = ~isMuted
    /\ elements' = [e \in DOMAIN elements |->
                       IF \E id \in DOMAIN videoRefs : videoRefs[id] = e
                       THEN [elements[e] EXCEPT !.muted = ~isMuted]
                       ELSE elements[e]]
    /\ lastOp' = [NoOp EXCEPT !.op = "mute"]
    /\ UNCHANGED <<videos, globalVolume, isPlaying, videoRefs, objectURLs,
                   nextId, mounted>>

\* toggleMute, lines 106-108
ToggleMute ==
    LET flag == ~isMuted
        dom  == Rerender(Dom, videos, globalVolume, isMuted, videos, globalVolume, flag, {})
    IN /\ mounted
       /\ Len(videos) # 0            \* disabled={videos.length === 0}
       /\ isMuted' = flag
       /\ videoRefs' = dom.refs
       /\ elements' = dom.els
       /\ lastOp' = [NoOp EXCEPT !.op = "mute"]
       /\ UNCHANGED <<videos, globalVolume, isPlaying, objectURLs, nextId, mounted>>

\* each element toggled by its own paused flag instead of isPlaying
PlayPauseAllPerElement(dom, playing, fails) ==
    [els    |-> [e \in DOMAIN dom.els |->
                    IF \E id \in DOMAIN dom.refs : dom.refs[id] = e
                    THEN IF ~dom.els[e].paused
                         THEN [dom.els[e] EXCEPT !.paused = TRUE]
                         ELSE IF e \in fails THEN dom.els[e]
                              ELSE [dom.els[e] EXCEPT !.paused = FALSE]
                    ELSE dom.els[e]],
     cmds   |-> [id \in DOMAIN dom.refs |->
                    IF ~dom.els[dom.refs[id]].paused THEN <<"pause">> ELSE <<"play">>],
     logged |-> {id \in DOMAIN dom.refs :
                    dom.els[dom.refs[id]].paused /\ dom.refs[id] \in fails}]

\* a failed play request thrown out of the forEach: the ids after the first
\* failing one, in insertion order, get no command
PlayPauseAllAbortOnFailure(dom, playing, fails) ==
    LET failing == IF playing THEN {} ELSE {id \in DOMAIN dom.refs : dom.refs[id] \in fails}
        reached == {id \in DOMAIN dom.refs : \A f \in failing : id <= f}
    IN [els    |-> [e \in DOMAIN dom.els |->
                       IF \E id \in reached : dom.refs[id] = e
                       THEN IF playing
                            THEN [dom.els[e] EXCEPT !.paused = TRUE]
                            ELSE IF e \in fails THEN dom.els[e]
                                 ELSE [dom.els[e] EXCEPT !.paused = FALSE]
                       ELSE dom.els[e]],
        cmds   |-> [id \in DOMAIN dom.refs |->
                       IF id \in reached
                       THEN IF playing THEN <<"pause">> ELSE <<"play">>
                       ELSE << >>],
        logged |-> failing \cap reached]

\* the forEach of togglePlayPause, lines 112-120, over the table in
\* insertion order: pause() pauses the element; play() starts it unless the
\* request fails, and a failed request rejects its promise, which the catch
\* logs.  The result is the elements, the commands issued per id of the
\* table and the ids whose failure reached console.error.
PlayPauseAll(dom, playing, fails) ==
    [els    |-> [e \in DOMAIN dom.els |->
                    IF \E id \in DOMAIN dom.refs : dom.refs[id] = e
                    THEN IF playing
                         THEN [dom.els[e] EXCEPT !.paused = TRUE]
                         ELSE IF e \in fails THEN dom.els[e]
                              ELSE [dom.els[e] EXCEPT !.paused = FALSE]
                    ELSE dom.els[e]],
     cmds   |-> [id \in DOMAIN dom.refs |->
                    IF playing THEN <<"pause">> ELSE <<"play">>],
     logged |-> IF playing THEN {}
                ELSE {id \in DOMAIN dom.refs : dom.refs[id] \in fails}]

\* setIsPlaying(!isPlaying), line 121
NextIsPlaying(playing) == ~playing

TogglePlayPause(fails) ==
    LET issued == PlayPauseAll(Dom, isPlaying, fails)
        dom    == Rerender([Dom EXCEPT !.els = issued.els],
                           videos, globalVolume, isMuted,
                           videos, globalVolume, isMuted, {})
    IN /\ mounted
       /\ Len(videos) # 0            \* disabled={videos.length === 0}
       /\ fails \subseteq DOMAIN elements
       /\ isPlaying => fails = {}    \* pause() does not fail
       /\ isPlaying' = NextIsPlaying(isPlaying)
       /\ videoRefs' = dom.refs
       /\ elements' = dom.els
       /\ lastOp' = [NoOp EXCEPT !.op = "toggle",
                                 !.cmds = issued.cmds,
                                 !.logged = issued.logged]
       /\ UNCHANGED <<videos, globalVolume, isMuted, objectURLs, nextId, mounted>>

\* the user adjusts one element through its native controls (line 230);
\* no handler of the component listens to these
NativeVolume(e, v) ==
    /\ mounted
    /\ e \in DOMAIN elements
    /\ elements[e].volume # v
    /\ elements' = [elements EXCEPT ![e].volume = v]
    /\ lastOp' = [NoOp EXCEPT !.op = "native"]
    /\ UNCHANGED <<videos, globalVolume, isMuted, isPlaying, videoRefs,
                   objectURLs, nextId, mounted>>

NativeMute(e) ==
    /\ mounted
    /\ e \in DOMAIN elements
    /\ elements' = [elements EXCEPT ![e].muted = ~@]
    /\ lastOp' = [NoOp EXCEPT !.op = "native"]
    /\ UNCHANGED <<videos, globalVolume, isMuted, isPlaying, videoRefs,
                   objectURLs, nextId, mounted>>

\* an onPlay/onPause listener feeding the element's state back into isPlaying
NativePlayPauseFeedsBack(e) ==
    /\ mounted
    /\ e \in DOMAIN elements
    /\ elements' = [elements EXCEPT ![e].paused = ~@]
    /\ isPlaying' = elements[e].paused
    /\ lastOp' = [NoOp EXCEPT !.op = "native"]
    /\ UNCHANGED <<videos, globalVolume, isMuted, videoRefs,
                   objectURLs, nextId, mounted>>

NativePlayPause(e) ==
    /\ mounted
    /\ e \in DOMAIN elements
    /\ elements' = [elements EXCEPT ![e].paused = ~@]
    /\ lastOp' = [NoOp EXCEPT !.op = "native"]
    /\ UNCHANGED <<videos, globalVolume, isMuted, isPlaying, videoRefs,
                   objectURLs, nextId, mounted>>

\* the component unmounts: every ref callback is called with null and the
\* cleanup of the [videos] effect runs
Unmount ==
    LET dom == DetachRefs(Dom, videos, globalVolume, isMuted)
    IN /\ mounted
       /\ mounted' = FALSE
       /\ objectURLs' = VideosCleanup(objectURLs, videos)
       /\ videoRefs' = dom.refs
       /\ elements' = EmptyMap
       /\ lastOp' = [NoOp EXCEPT !.op = "unmount"]
       /\ UNCHANGED <<videos, globalVolume, isMuted, isPlaying, nextId>>

\* a drop whose new entries keep the session within limit entries
Drop(limit) ==
    \E files \in Payloads :
       \E blocked \in SUBSET (nextId..(nextId + Len(VideoFiles(files)) - 1)) :
          /\ nextId + Len(VideoFiles(files)) - 1 <= limit
          /\ HandleDrop(files, blocked)

Remove == \E id \in Ids(videos) : RemoveVideo(id)

Volume == \E v \in VolumeChoices : SetGlobalVolume(v)

Toggle == \E fails \in SUBSET (DOMAIN elements) : TogglePlayPause(fails)

Next ==
    \/ Drop(MaxIds)
    \/ Remove
    \/ ClearAllVideos
    \/ Volume
    \/ ToggleMute
    \/ Toggle
    \/ Unmount

Spec == Init /\ [][Next]_vars

\* the handlers that change the registry, on a larger registry
NextRegistry ==
    \/ Drop(MaxRegistryIds)
    \/ Remove
    \/ ClearAllVideos
    \/ Unmount

SpecRegistry == Init /\ [][NextRegistry]_vars

\* removeVideo called with an id that is not in the registry: an id of an
\* entry removed earlier, or one never handed out.  No control of the page
\* issues this call; it is the function's behaviour for such an argument.
RemoveAbsent == \E id \in (1..nextId) \ Ids(videos) : RemoveVideo(id)

NextRemoveAbsent ==
    \/ Drop(MaxRegistryIds)
    \/ Remove
    \/ ClearAllVideos
    \/ Unmount
    \/ RemoveAbsent

SpecRemoveAbsent == Init /\ [][NextRemoveAbsent]_vars

\* the handlers together with the user's use of the native controls
NextNative ==
    \/ Drop(MaxNativeIds)
    \/ Remove
    \/ ClearAllVideos
    \/ Volume
    \/ ToggleMute
    \/ Toggle
    \/ Unmount
    \/ \E e \in DOMAIN elements : \E v \in VolumeChoices : NativeVolume(e, v)
    \/ \E e \in DOMAIN elements : NativeMute(e)
    \/ \E e \in DOMAIN elements : NativePlayPause(e)

SpecNative == Init /\ [][NextNative]_vars

TypeOK ==
    /\ \A i \in 1..Len(videos) : videos[i].id \in 1..(nextId - 1) /\ videos[i].url \in DOMAIN objectURLs
    /\ globalVolume \in VolumeChoices
    /\ isMuted \in BOOLEAN /\ isPlaying \in BOOLEAN /\ mounted \in BOOLEAN
    /\ \A u \in DOMAIN objectURLs : objectURLs[u].revoked \in 0..MaxRevoke
    /\ \A e \in DOMAIN elements : elements[e].volume \in VolumeChoices \cup {DefaultVolume}

----------------------------------------------------------------------------
(* Properties *)

Revoked(u) == objectURLs[u].revoked

\* the positions of the video-typed files of a payload
VideoPositions(files) ==
    {i \in 1..Len(files) : SubSeq(FileType(files[i]), 1, 6) = VideoPrefix}

\* the position in the payload of its k-th video-typed file
KthVideoPosition(files, k) ==
    CHOOSE i \in VideoPositions(files) :
        Cardinality({j \in VideoPositions(files) : j < i}) = k - 1

\* C1: removing an entry that is in the registry releases its source
\* reference exactly once: when the remove has completed the release count of
\* the reference is 1, and no operation releases a reference whose entry has
\* left the registry.
C1_RemoveReleasesOnce ==
    [][/\ lastOp'.op = "remove" =>
            \A i \in 1..Len(videos) :
                videos[i].id \notin Ids(videos') => objectURLs'[videos[i].url].revoked = 1
       /\ \A u \in DOMAIN objectURLs \ Urls(videos) :
            objectURLs'[u].revoked = objectURLs[u].revoked]_vars

\* C2: a clear leaves the registry and the binding table empty, and every
\* source reference held by an entry that was in the registry at the clear
\* has then been released exactly once in total.
C2_ClearReleasesEachOnce ==
    [][lastOp'.op = "clear" =>
          /\ videos' = << >>
          /\ DOMAIN videoRefs' = {}
          /\ \A u \in Urls(videos) : objectURLs'[u].revoked = 1]_vars

\* C3: the source reference of every entry in the registry is unreleased.
C3_HeldReferencesUnreleased ==
    mounted => \A i \in 1..Len(videos) : Revoked(videos[i].url) = 0

\* C4: a drop appends to the registry exactly one new entry per video-typed
\* file of the payload, in payload order, after the entries that were there;
\* the other files add nothing.
C4_DropAppendsVideoFiles ==
    [][lastOp'.op = "drop" =>
          LET files == lastOp'.files
              n     == Cardinality(VideoPositions(files))
              old   == Len(videos)
          IN /\ Len(videos') = old + n
             /\ \A i \in 1..old : videos'[i] = videos[i]
             /\ \A k \in 1..n :
                   /\ videos'[old + k].id \notin Ids(videos)
                   /\ videos'[old + k].url \notin DOMAIN objectURLs
                   /\ objectURLs'[videos'[old + k].url].blob =
                          files[KthVideoPosition(files, k)]]_vars

\* C4 witness: two video files were dropped onto a registry holding an entry
C4_Witness ==
    /\ lastOp.op = "drop"
    /\ lastOp.files = <<"b.webm", "a.mp4">>
    /\ Len(videos) = 3
    /\ objectURLs[videos[2].url].blob = "b.webm"
    /\ objectURLs[videos[3].url].blob = "a.mp4"

\* C5: a remove deletes exactly the entry of the given id: the others keep
\* their ids and relative order, the binding table has no entry for the
\* removed id and still holds the handles of the remaining entries.
C5_RemoveDeletesExactlyOne ==
    [][lastOp'.op = "remove" =>
          \E i \in 1..Len(videos) :
              /\ videos' = SubSeq(videos, 1, i - 1) \o SubSeq(videos, i + 1, Len(videos))
              /\ videos[i].id \notin DOMAIN videoRefs'
              /\ \A id \in Ids(videos) \ {videos[i].id} :
                    /\ id \in DOMAIN videoRefs'
                    /\ videoRefs'[id] = videoRefs[id]]_vars

\* C5 witness: the second of three entries was removed
C5_Witness ==
    /\ lastOp.op = "remove"
    /\ Len(videos) = 2
    /\ videos[1].id = 1
    /\ videos[2].id = 3
    /\ DOMAIN videoRefs = {1, 3}

\* C10: a drop with no video-typed file changes nothing: not the registry,
\* the binding table, the control state, nor whether any source reference is
\* released.
C10_EmptyDropIsNoOp ==
    [][(lastOp'.op = "drop" /\ VideoPositions(lastOp'.files) = {}) =>
          /\ videos' = videos
          /\ videoRefs' = videoRefs
          /\ globalVolume' = globalVolume
          /\ isMuted' = isMuted
          /\ isPlaying' = isPlaying
          /\ DOMAIN objectURLs' = DOMAIN objectURLs
          /\ \A u \in DOMAIN objectURLs :
                (objectURLs'[u].revoked = 0) <=> (objectURLs[u].revoked = 0)]_vars

\* the handles of the binding table
Bound == {videoRefs[id] : id \in DOMAIN videoRefs}

\* C6: when a global control change has completed every handle in the
\* binding table carries the new value: the new volume after a volume change,
\* the new mute flag after a mute change.
C6_ControlChangeReachesAllBound ==
    [][/\ lastOp'.op = "volume" =>
            /\ globalVolume' # globalVolume
            /\ \A id \in DOMAIN videoRefs' : elements'[videoRefs'[id]].volume = globalVolume'
       /\ lastOp'.op = "mute" =>
            /\ isMuted' = ~isMuted
            /\ \A id \in DOMAIN videoRefs' : elements'[videoRefs'[id]].muted = isMuted']_vars

\* C6 witness: the volume was changed while two handles were bound and
\* muted, and both carry the new volume
C6_Witness ==
    /\ lastOp.op = "volume"
    /\ globalVolume # InitVolume
    /\ isMuted
    /\ Cardinality(Bound) = 2
    /\ \A e \in Bound : elements[e].volume = globalVolume /\ elements[e].muted

\* C7: a handle that becomes bound carries the current globalVolume and
\* isMuted at that moment, without a broadcast.
C7_BindAppliesControlState ==
    [][\A id \in DOMAIN videoRefs' \ DOMAIN videoRefs :
          /\ elements'[videoRefs'[id]].volume = globalVolume'
          /\ elements'[videoRefs'[id]].muted = isMuted']_vars

\* C7 witness: an element was mounted after the volume and the mute flag had
\* been changed, and carries both
C7_Witness ==
    /\ lastOp.op = "drop"
    /\ globalVolume # InitVolume
    /\ isMuted
    /\ nextId - 1 \in DOMAIN videoRefs
    /\ Len(videos) > 1
    /\ elements[videoRefs[nextId - 1]].volume = globalVolume
    /\ elements[videoRefs[nextId - 1]].muted

\* C8: a toggle issues exactly one command to every handle of the binding
\* table, pause if isPlaying was true and play otherwise, and flips
\* isPlaying; isPlaying is true initially.
C8_ToggleAlternates ==
    /\ isPlaying = TRUE
    /\ [][lastOp'.op = "toggle" =>
             /\ isPlaying' = ~isPlaying
             /\ DOMAIN lastOp'.cmds = DOMAIN videoRefs
             /\ \A id \in DOMAIN videoRefs :
                   lastOp'.cmds[id] = IF isPlaying THEN <<"pause">> ELSE <<"play">>
             /\ isPlaying => \A id \in DOMAIN videoRefs : elements'[videoRefs[id]].paused]_vars

\* C8 witness: a toggle from Paused issued play to two bound handles
C8_Witness ==
    /\ lastOp.op = "toggle"
    /\ isPlaying
    /\ Cardinality(DOMAIN videoRefs) = 2
    /\ \A id \in DOMAIN videoRefs : lastOp.cmds[id] = <<"play">>

\* C9: when a play request fails during a toggle from Paused, play is still
\* issued to every bound handle, the handles whose request did not fail
\* play, isPlaying becomes true, and the registry and the binding table are
\* unchanged.
C9_PlayFailureIsContained ==
    [][(lastOp'.op = "toggle" /\ lastOp'.logged # {}) =>
          /\ \A id \in DOMAIN videoRefs : lastOp'.cmds[id] = <<"play">>
          /\ \A id \in DOMAIN videoRefs \ lastOp'.logged : ~elements'[videoRefs[id]].paused
          /\ isPlaying' = TRUE
          /\ videos' = videos
          /\ videoRefs' = videoRefs]_vars

\* C9 witness: the play request of the first of two handles failed and the
\* other one plays
C9_Witness ==
    /\ lastOp.op = "toggle"
    /\ lastOp.logged = {1}
    /\ DOMAIN videoRefs = {1, 2}
    /\ isPlaying
    /\ elements[1].paused
    /\ ~elements[2].paused

\* C11: a teardown releases the source reference of every entry then in the
\* registry, each of them has then been released exactly once in total, and
\* the references of entries removed earlier are not released again.
C11_TeardownReleasesHeldOnce ==
    [][lastOp'.op = "unmount" =>
          /\ \A u \in Urls(videos) : objectURLs'[u].revoked = 1
          /\ \A u \in DOMAIN objectURLs \ Urls(videos) :
                objectURLs'[u].revoked = objectURLs[u].revoked]_vars

\* C12: the control state starts as (0.5, false, true) and each field changes
\* only through its own operation: globalVolume by a volume change, isMuted
\* by a mute toggle, isPlaying by a play/pause toggle (which flips it also
\* when a play request fails).  Drops, removes, clears, binds, unbinds and
\* native adjustments of an element leave the three fields unchanged.
C12_ControlStateOwnOperationOnly ==
    /\ globalVolume = InitVolume
    /\ isMuted = FALSE
    /\ isPlaying = TRUE
    /\ [][/\ globalVolume' # globalVolume => lastOp'.op = "volume"
          /\ isMuted' # isMuted => lastOp'.op = "mute"
          /\ isPlaying' # isPlaying => lastOp'.op = "toggle"
          /\ lastOp'.op \in {"drop", "remove", "clear", "native", "unmount"} =>
                /\ globalVolume' = globalVolume
                /\ isMuted' = isMuted
                /\ isPlaying' = isPlaying
          /\ (lastOp'.op = "toggle" /\ lastOp'.logged # {}) =>
                /\ globalVolume' = globalVolume
                /\ isMuted' = isMuted
                /\ isPlaying' = TRUE]_vars

\* C12 witness: the user lowered, muted and paused an element through its
\* native controls while the control state still has its initial values
C12_Witness ==
    /\ lastOp.op = "native"
    /\ globalVolume = InitVolume
    /\ ~isMuted
    /\ isPlaying
    /\ \E e \in Bound :
          /\ elements[e].volume # globalVolume
          /\ elements[e].muted
          /\ elements[e].paused

\* C13: a remove with an id that is not in the registry is a no-op: the
\* registry, the binding table and the control state are unchanged and no
\* source reference is released.
C13_RemoveAbsentIsNoOp ==
    [][(lastOp'.op = "remove" /\ Len(videos') = Len(videos)) =>
          /\ videos' = videos
          /\ videoRefs' = videoRefs
          /\ globalVolume' = globalVolume
          /\ isMuted' = isMuted
          /\ isPlaying' = isPlaying
          /\ \A u \in DOMAIN objectURLs :
                objectURLs'[u].revoked = objectURLs[u].revoked]_vars

\* C14: the ids in the registry are pairwise distinct and so are the source
\* references, also when the same file is dropped more than once; and an
\* entry keeps its id for as long as it is in the registry.
C14_IdsAndReferencesDistinct ==
    /\ [](\A i, j \in 1..Len(videos) :
             i # j => (videos[i].id # videos[j].id /\ videos[i].url # videos[j].url))
    /\ [][\A i \in 1..Len(videos) : \A j \in 1..Len(videos') :
             videos'[j].url = videos[i].url => videos'[j].id = videos[i].id]_vars

\* C14 witness: the same file was dropped twice in one payload onto a
\* registry holding an entry, and made two entries with their own ids and
\* source references
C14_Witness ==
    /\ lastOp.op = "drop"
    /\ lastOp.files = <<"a.mp4", "a.mp4">>
    /\ Len(videos) = 3
    /\ objectURLs[videos[2].url].blob = "a.mp4"
    /\ objectURLs[videos[3].url].blob = "a.mp4"
    /\ videos[2].id # videos[3].id
    /\ videos[2].url # videos[3].url

\* C15: the transport state reaches handles mounted after the last toggle: a
\* handle that becomes bound while isPlaying is false is not playing once it
\* is bound.
C15_BindAppliesTransportState ==
    [][~isPlaying' =>
          \A id \in DOMAIN videoRefs' \ DOMAIN videoRefs :
              elements'[videoRefs'[id]].paused]_vars

\* C16: while the component is mounted, after every operation and its
\* re-render the ids of the binding table are the ids of the registry, and
\* every entry is bound to one mounted element of its own.
C16_TableMatchesRegistry ==
    mounted =>
        /\ DOMAIN videoRefs = Ids(videos)
        /\ \A id \in DOMAIN videoRefs : videoRefs[id] \in DOMAIN elements
        /\ \A id1, id2 \in DOMAIN videoRefs :
              videoRefs[id1] = videoRefs[id2] => id1 = id2
        /\ Cardinality(DOMAIN videoRefs) = Len(videos)

\* C16 witness: after a clear and a further drop the only entry is the third
\* one created, and it alone is bound
C16_Witness ==
    /\ mounted
    /\ lastOp.op = "drop"
    /\ Len(videos) = 1
    /\ videos[1].id = 3
    /\ DOMAIN videoRefs = {3}
    /\ DOMAIN elements = {3}

\* C17: either global change writes both properties to every bound handle:
\* after a mute change every bound handle also has volume = globalVolume,
\* and after a volume change every bound handle also has muted = isMuted, so
\* a value set on one handle through its native controls does not survive
\* the next global volume or mute change.
C17_FanOutWritesBoth ==
    [][lastOp'.op \in {"volume", "mute"} =>
          \A id \in DOMAIN videoRefs' :
              /\ id \in DOMAIN videoRefs
              /\ elements'[videoRefs'[id]].volume = globalVolume'
              /\ elements'[videoRefs'[id]].muted = isMuted']_vars

\* C17 witness: a mute change completed while the volume was not the initial
\* one, and the bound handle, paused by the user, carries both global values
C17_Witness ==
    /\ lastOp.op = "mute"
    /\ isMuted
    /\ globalVolume # InitVolume
    /\ isPlaying
    /\ Cardinality(Bound) = 1
    /\ \A e \in Bound :
          /\ elements[e].volume = globalVolume
          /\ elements[e].muted
          /\ elements[e].paused

====
